---- MODULE Spec2Model ----
(***************************************************************************)
(* Contact form backend (case-closed-backend/server.js).                   *)
(*                                                                         *)
(* Strings are kept run-length encoded: a string is a sequence of runs     *)
(* [c |-> character, n |-> repetitions] in which neighbouring runs differ  *)
(* in their character.  The encoding keeps the 4000-character cut of       *)
(* sanitize within reach of exhaustive checking; every string operation    *)
(* below is the JavaScript operation computed on that encoding.            *)
(*                                                                         *)
(* Modelled: the limiter on /api/contact, GET /health, the handler of      *)
(* POST /api/contact with createTransporter and the awaited sendMail, and  *)
(* sanitize, isEmail and escapeHtml.  Left out: GET /, the CORS and helmet *)
(* headers, and the final error middleware, which no step modelled here    *)
(* reaches.  The limiter is the express-rate-limit package as configured;  *)
(* the end of an address's window is an event of its own.                  *)
(***************************************************************************)
EXTENDS Integers, Sequences, FiniteSets, TLC

VARIABLES
    env,      \* process.env: which of the settings the handler reads are set
    up,       \* the node process is running
    hits,     \* contactLimiter's store: requests counted per client address
    pc,       \* per request slot: idle, handler, sending, done
    kind,     \* per request: none, contact, health
    ip,       \* per request: req.ip
    body,     \* per request: index of req.body in BodyTable (0: no request)
    relay,    \* per request: what the relay does with the message handed over
    resp,     \* per request: the response written
    nresp,    \* per request: number of responses written
    ctor,     \* per request: calls of createTransporter
    sends,    \* per request: calls of transporter.sendMail
    mail,     \* per request: the argument of transporter.sendMail
    sIn,      \* sanitizer run: the value passed to sanitize
    sOnce,    \* sanitizer run: sanitize(sIn)
    sTwice,   \* sanitizer run: sanitize(sanitize(sIn))
    sStage    \* sanitizer run: raw, once, twice

vars == <<env, up, hits, pc, kind, ip, body, relay, resp, nresp, ctor, sends,
          mail, sIn, sOnce, sTwice, sStage>>

reqVars == <<env, up, hits, pc, kind, ip, body, relay, resp, nresp, ctor,
             sends, mail>>

sanVars == <<sIn, sOnce, sTwice, sStage>>

----------------------------------------------------------------------------
(* Bounds and program constants *)

MaxReqs == 2

MaxRuns == 3

SliceMax == 4000

LimiterMax == 20

MinNameLen == 2

MinMessageLen == 10

\* the limiter's count is kept up to one above max: it is only ever compared
\* with max, so every higher count behaves as this one
HitCap == LimiterMax + 1

Reqs == 1..MaxReqs

Min(a, b) == IF a <= b THEN a ELSE b

Max(a, b) == IF a >= b THEN a ELSE b

----------------------------------------------------------------------------
(* Strings *)

Run(c, n) == [c |-> c, n |-> n]

RECURSIVE Norm(_)
Norm(s) ==
    IF Len(s) <= 1 THEN s
    ELSE LET r == Norm(Tail(s))
         IN IF Head(s).c = Head(r).c
            THEN <<Run(Head(s).c, Head(s).n + Head(r).n)>> \o Tail(r)
            ELSE <<Head(s)>> \o r

Cat(s, t) == Norm(s \o t)

Lit(chars) == Norm([i \in 1..Len(chars) |-> Run(chars[i], 1)])

Rep(c, n) == <<Run(c, n)>>

RECURSIVE StrLen(_)
StrLen(s) == IF s = <<>> THEN 0 ELSE Head(s).n + StrLen(Tail(s))

CharsOf(s) == {s[i].c : i \in 1..Len(s)}

\* [\r\n]
IsLineBreak(c) == c \in {"\r", "\n"}

\* \s, and what String.prototype.trim strips
IsSpace(c) == c \in {" ", "\t", "\r", "\n"}

\* a value of req.body?.<field>: absent, or a string
Undefined == [t |-> "undefined"]

Str(s) == [t |-> "string", s |-> s]

\* String(str || "")
ToStr(v) == IF v.t = "string" THEN v.s ELSE <<>>

RECURSIVE SkipBreaks(_)
SkipBreaks(s) ==
    IF s # <<>> /\ IsLineBreak(Head(s).c) THEN SkipBreaks(Tail(s)) ELSE s

RECURSIVE Collapse(_)
Collapse(s) ==
    IF s = <<>> THEN <<>>
    ELSE IF IsLineBreak(Head(s).c)
         THEN <<Run(" ", 1)>> \o Collapse(SkipBreaks(Tail(s)))
         ELSE <<Head(s)>> \o Collapse(Tail(s))

\* .replace(/[\r\n]+/g, " ")
ReplaceBreaks(s) == Norm(Collapse(s))

RECURSIVE TrimStart(_)
TrimStart(s) ==
    IF s # <<>> /\ IsSpace(Head(s).c) THEN TrimStart(Tail(s)) ELSE s

RECURSIVE TrimEnd(_)
TrimEnd(s) ==
    IF s # <<>> /\ IsSpace(s[Len(s)].c)
    THEN TrimEnd(SubSeq(s, 1, Len(s) - 1))
    ELSE s

\* .trim()
Trim(s) == TrimEnd(TrimStart(s))

RECURSIVE Take(_, _)
Take(s, k) ==
    IF s = <<>> \/ k <= 0 THEN <<>>
    ELSE IF Head(s).n <= k
         THEN <<Head(s)>> \o Take(Tail(s), k - Head(s).n)
         ELSE <<Run(Head(s).c, k)>>

\* .slice(0, k)
Slice(s, k) == Take(s, k)

\* the cut taken before the trim
sanitizeCutFirst(v) == Trim(Slice(ReplaceBreaks(ToStr(v)), SliceMax))

sanitize(v) == Slice(Trim(ReplaceBreaks(ToStr(v))), SliceMax)

\* characters of s before run i
RECURSIVE Before(_, _)
Before(s, i) == IF i <= 1 THEN 0 ELSE s[i - 1].n + Before(s, i - 1)

\* /^[^\s@]+@[^\s@]+\.[^\s@]+$/ on t: no whitespace, one "@" with a character
\* before it, and after it a "." that is neither the first nor the last
\* character of what follows the "@"
MatchesEmail(t) ==
    LET ats == {i \in 1..Len(t) : t[i].c = "@"}
    IN /\ \A i \in 1..Len(t) : ~IsSpace(t[i].c)
       /\ Cardinality(ats) = 1
       /\ \A a \in ats :
            /\ t[a].n = 1
            /\ a > 1
            /\ LET d == SubSeq(t, a + 1, Len(t))
                   dlen == StrLen(d)
               IN \E j \in 1..Len(d) :
                    /\ d[j].c = "."
                    /\ Max(Before(d, j) + 1, 2) <= Min(Before(d, j) + d[j].n, dlen - 1)

isEmail(s) == MatchesEmail(Trim(s))

EscapeChar(c) ==
    CASE c = "&" -> "&amp;"
      [] c = "<" -> "&lt;"
      [] c = ">" -> "&gt;"
      [] c = "\"" -> "&quot;"
      [] c = "'" -> "&#039;"
      [] OTHER -> c

\* the five replaceAll calls, "&" first: each character of the input is
\* replaced on its own; a run of the result repeats the replacement text
escapeHtml(s) == [i \in 1..Len(s) |-> Run(EscapeChar(s[i].c), s[i].n)]

----------------------------------------------------------------------------
(* Requests, configuration and responses *)

Clients == {"c1", "c2"}

NoClient == "none"

NameJo == Lit(<<"J", "o">>)

NameA == Lit(<<"A">>)

EmailJo == Lit(<<"j", "o", "@", "e", "x", "a", "m", "p", "l", "e", ".", "c", "o", "m">>)

EmailBad == Lit(<<"n", "o", "t", "-", "a", "n", "-", "e", "m", "a", "i", "l">>)

MsgHello ==
    Lit(<<"H", "e", "l", "l", "o", ",", " ", "t", "h", "i", "s", " ", "i", "s", " ",
          "l", "o", "n", "g", " ", "e", "n", "o", "u", "g", "h", ".">>)

MsgShort == Lit(<<"s", "h", "o", "r", "t">>)

CrLf == Lit(<<"\r", "\n">>)

\* req.body of the requests sent
BodyTable == <<
    \* 1: the well-formed submission
    [name |-> Str(NameJo), email |-> Str(EmailJo), message |-> Str(MsgHello)],
    \* 2: a one-character name
    [name |-> Str(NameA), email |-> Str(EmailJo), message |-> Str(MsgHello)],
    \* 3: no body fields at all
    [name |-> Undefined, email |-> Undefined, message |-> Undefined],
    \* 4: a bad email and a short message
    [name |-> Str(NameJo), email |-> Str(EmailBad), message |-> Str(MsgShort)],
    \* 5: a short message
    [name |-> Str(NameJo), email |-> Str(EmailJo), message |-> Str(MsgShort)],
    \* 6: line breaks and markup around and inside well-formed fields
    [name |-> Str(Cat(CrLf, Cat(Lit(<<"<", "J", "&", "o", ">">>), Lit(<<" ", "\n">>)))),
     email |-> Str(Cat(EmailJo, CrLf)),
     message |-> Str(Cat(Lit(<<"H", "e", "l", "l", "o", ",">>),
                         Cat(Cat(CrLf, CrLf), Lit(<<"w", "o", "r", "l", "d", "!">>))))],
    \* 7: a header smuggled in after the email
    [name |-> Str(NameJo),
     email |-> Str(Cat(EmailJo, Cat(CrLf, Lit(<<"B", "c", "c", ":", "x", "@", "y", ".", "z">>)))),
     message |-> Str(MsgHello)],
    \* 8: fields longer than the cut, with whitespace where the cut falls
    [name |-> Str(Rep("N", SliceMax + 1)),
     email |-> Str(Cat(Lit(<<"a", "@", "b", ".">>),
                       Cat(Rep("c", SliceMax - 5), Lit(<<" ", "x">>)))),
     message |-> Str(Cat(Rep("m", SliceMax - 1), Cat(Lit(<<"\n">>), Rep("m", 2))))]
>>

Bodies == 1..Len(BodyTable)

NoBody == 0

\* process.env as the handler reads it: TRUE where the setting is non-empty
EnvOf(to, host, user, pass) == [to |-> to, host |-> host, user |-> user, pass |-> pass]

Envs == {EnvOf(TRUE, TRUE, TRUE, TRUE), EnvOf(FALSE, TRUE, TRUE, TRUE),
         EnvOf(TRUE, FALSE, TRUE, TRUE), EnvOf(TRUE, TRUE, FALSE, TRUE),
         EnvOf(TRUE, TRUE, TRUE, FALSE), EnvOf(FALSE, FALSE, FALSE, FALSE)}

Json(status, ok, error) == [status |-> status, ok |-> ok, error |-> error]

NoResp == Json(0, FALSE, "")

OkResponse == Json(200, TRUE, "")

NameError == Json(400, FALSE, "Please enter your name.")

EmailError == Json(400, FALSE, "Please enter a valid email.")

MessageError == Json(400, FALSE, "Please enter a longer message.")

ConfigError == Json(500, FALSE, "Server not configured: CONTACT_TO_EMAIL missing.")

CatchResponse == Json(500, FALSE, "Failed to send message.")

\* express-rate-limit's rejection: status 429 with its default message
LimitResponse == Json(429, FALSE, "Too many requests, please try again later.")

NoMail == [sent |-> FALSE]

----------------------------------------------------------------------------
(* The HTTP surface *)

\* res.status(..).json(..), ending the request
Respond(r, response) ==
    /\ pc' = [pc EXCEPT ![r] = "done"]
    /\ resp' = [resp EXCEPT ![r] = response]
    /\ nresp' = [nresp EXCEPT ![r] = @ + 1]

Count(c) == [hits EXCEPT ![c] = Min(@ + 1, HitCap)]

\* the limit reached one request early
OverLimitEarly(n) == n >= LimiterMax

OverLimit(n) == n > LimiterMax

\* POST /api/contact arrives: contactLimiter counts it and lets it through
\* to the handler or rejects it
ContactArrive(r, c, b) ==
    /\ up
    /\ pc[r] = "idle"
    /\ kind' = [kind EXCEPT ![r] = "contact"]
    /\ ip' = [ip EXCEPT ![r] = c]
    /\ body' = [body EXCEPT ![r] = b]
    /\ hits' = Count(c)
    /\ IF OverLimit(hits'[c])
       THEN Respond(r, LimitResponse)
       ELSE /\ pc' = [pc EXCEPT ![r] = "handler"]
            /\ UNCHANGED <<resp, nresp>>
    /\ UNCHANGED <<env, up, relay, ctor, sends, mail, sanVars>>

\* the limiter mounted on every path
HealthLimited(r, c) ==
    /\ up
    /\ pc[r] = "idle"
    /\ kind' = [kind EXCEPT ![r] = "health"]
    /\ ip' = [ip EXCEPT ![r] = c]
    /\ hits' = Count(c)
    /\ Respond(r, IF OverLimit(hits'[c]) THEN LimitResponse ELSE OkResponse)
    /\ UNCHANGED <<env, up, body, relay, ctor, sends, mail, sanVars>>

\* GET /health
Health(r, c) ==
    /\ up
    /\ pc[r] = "idle"
    /\ kind' = [kind EXCEPT ![r] = "health"]
    /\ ip' = [ip EXCEPT ![r] = c]
    /\ Respond(r, OkResponse)
    /\ UNCHANGED <<env, up, hits, body, relay, ctor, sends, mail, sanVars>>

\* createTransporter returns a transport (it throws otherwise)
TransportReady == env.host /\ env.user /\ env.pass

\* the message checked before the name and the email
MessageFirst(name, email, message) ==
    IF message = <<>> \/ StrLen(message) < MinMessageLen THEN "message"
    ELSE IF name = <<>> \/ StrLen(name) < MinNameLen THEN "name"
    ELSE IF email = <<>> \/ ~isEmail(email) THEN "email"
    ELSE ""

\* lines 109-117: the first validation rule that fails, "" when none does
Invalid(name, email, message) ==
    IF name = <<>> \/ StrLen(name) < MinNameLen THEN "name"
    ELSE IF email = <<>> \/ ~isEmail(email) THEN "email"
    ELSE IF message = <<>> \/ StrLen(message) < MinMessageLen THEN "message"
    ELSE ""

\* replyTo taken from the name
ReplyToName(name, email, message) ==
    [sent |-> TRUE, replyTo |-> name, name |-> name, email |-> email,
     message |-> message,
     html |-> [name |-> escapeHtml(name), email |-> escapeHtml(email),
               message |-> escapeHtml(message)]]

\* the object handed to transporter.sendMail: the fields that go into the
\* subject, the text and the html, and replyTo (the timestamp, address and
\* user agent lines of the two bodies are left out)
MailOf(name, email, message) ==
    [sent |-> TRUE, replyTo |-> email, name |-> name, email |-> email,
     message |-> message,
     html |-> [name |-> escapeHtml(name), email |-> escapeHtml(email),
               message |-> escapeHtml(message)]]

\* lines 105-107: the three fields of each body of BodyTable, sanitized
Fields ==
    [b \in Bodies |-> [name |-> sanitize(BodyTable[b].name),
                       email |-> sanitize(BodyTable[b].email),
                       message |-> sanitize(BodyTable[b].message)]]

\* the check of the recipient left out
RecipientAssumed == FALSE

\* if (!to)
RecipientMissing == ~env.to

\* what the relay may do with a message: accept it, reject it, never answer
RelayOutcomes == {"accept", "reject", "hang"}

EnvAllSet == EnvOf(TRUE, TRUE, TRUE, TRUE)

\* a send in flight holds up every other handler
RunsAlone(r) == pc[r] = "handler" /\ \A q \in Reqs : pc[q] # "sending"

\* the handler of an admitted request is scheduled
Runs(r) == pc[r] = "handler"

\* the handler of POST /api/contact, up to its await; O is what the relay may
\* do with the message
Handle(r, O) ==
    /\ up
    /\ Runs(r)
    /\ LET name == Fields[body[r]].name
           email == Fields[body[r]].email
           message == Fields[body[r]].message
           bad == Invalid(name, email, message)
       IN IF bad = "name"
          THEN Respond(r, NameError) /\ UNCHANGED <<relay, ctor, sends, mail>>
          ELSE IF bad = "email"
          THEN Respond(r, EmailError) /\ UNCHANGED <<relay, ctor, sends, mail>>
          ELSE IF bad = "message"
          THEN Respond(r, MessageError) /\ UNCHANGED <<relay, ctor, sends, mail>>
          ELSE IF RecipientMissing
          THEN Respond(r, ConfigError) /\ UNCHANGED <<relay, ctor, sends, mail>>
          ELSE /\ ctor' = [ctor EXCEPT ![r] = @ + 1]
               /\ IF ~TransportReady
                  THEN \* createTransporter throws; the catch block answers
                       /\ Respond(r, CatchResponse)
                       /\ UNCHANGED <<relay, sends, mail>>
                  ELSE \* transporter.sendMail is called and awaited
                       /\ sends' = [sends EXCEPT ![r] = @ + 1]
                       /\ mail' = [mail EXCEPT ![r] = MailOf(name, email, message)]
                       /\ \E o \in O : relay' = [relay EXCEPT ![r] = o]
                       /\ pc' = [pc EXCEPT ![r] = "sending"]
                       /\ UNCHANGED <<resp, nresp>>
    /\ UNCHANGED <<env, up, hits, kind, ip, body, sanVars>>

\* the awaited send resolves
SendResolved(r) ==
    /\ up
    /\ pc[r] = "sending"
    /\ relay[r] = "accept"
    /\ Respond(r, OkResponse)
    /\ UNCHANGED <<env, up, hits, kind, ip, body, relay, ctor, sends, mail, sanVars>>

\* no try around the await: the rejection ends the process
SendRejectedUncaught(r) ==
    /\ up
    /\ pc[r] = "sending"
    /\ relay[r] = "reject"
    /\ up' = FALSE
    /\ UNCHANGED <<env, hits, pc, kind, ip, body, relay, resp, nresp, ctor, sends,
                   mail, sanVars>>

\* the awaited send rejects: the catch block answers
SendRejected(r) ==
    /\ up
    /\ pc[r] = "sending"
    /\ relay[r] = "reject"
    /\ Respond(r, CatchResponse)
    /\ UNCHANGED <<env, up, hits, kind, ip, body, relay, ctor, sends, mail, sanVars>>

\* the response is out and the request is gone
Release(r) ==
    /\ up
    /\ pc[r] = "done"
    /\ pc' = [pc EXCEPT ![r] = "idle"]
    /\ kind' = [kind EXCEPT ![r] = "none"]
    /\ ip' = [ip EXCEPT ![r] = NoClient]
    /\ body' = [body EXCEPT ![r] = NoBody]
    /\ relay' = [relay EXCEPT ![r] = "none"]
    /\ resp' = [resp EXCEPT ![r] = NoResp]
    /\ nresp' = [nresp EXCEPT ![r] = 0]
    /\ ctor' = [ctor EXCEPT ![r] = 0]
    /\ sends' = [sends EXCEPT ![r] = 0]
    /\ mail' = [mail EXCEPT ![r] = NoMail]
    /\ UNCHANGED <<env, up, hits, sanVars>>

\* windowMs has passed for an address: the limiter forgets its count
WindowExpire(c) ==
    /\ up
    /\ hits[c] > 0
    /\ hits' = [hits EXCEPT ![c] = 0]
    /\ UNCHANGED <<env, up, pc, kind, ip, body, relay, resp, nresp, ctor, sends,
                   mail, sanVars>>

----------------------------------------------------------------------------
(* The server *)

ReqInit ==
    /\ up = TRUE
    /\ hits = [c \in Clients |-> 0]
    /\ pc = [r \in Reqs |-> "idle"]
    /\ kind = [r \in Reqs |-> "none"]
    /\ ip = [r \in Reqs |-> NoClient]
    /\ body = [r \in Reqs |-> NoBody]
    /\ relay = [r \in Reqs |-> "none"]
    /\ resp = [r \in Reqs |-> NoResp]
    /\ nresp = [r \in Reqs |-> 0]
    /\ ctor = [r \in Reqs |-> 0]
    /\ sends = [r \in Reqs |-> 0]
    /\ mail = [r \in Reqs |-> NoMail]

SanIdle ==
    /\ sIn = Undefined
    /\ sOnce = <<>>
    /\ sTwice = <<>>
    /\ sStage = "off"

\* The server from its start, serving MaxReqs requests of one address: every
\* body of BodyTable under every configuration of Envs.
Init ==
    /\ env \in Envs
    /\ ReqInit
    /\ SanIdle

Next ==
    \/ \E r \in Reqs, b \in Bodies : ContactArrive(r, "c1", b)
    \/ \E r \in Reqs : Health(r, "c1")
    \/ \E r \in Reqs : Handle(r, RelayOutcomes)
    \/ \E r \in Reqs : SendResolved(r)
    \/ \E r \in Reqs : SendRejected(r)
    \/ WindowExpire("c1")

Spec == Init /\ [][Next]_vars

\* The limiter over long runs: two addresses, request slots reused, the
\* well-formed submission under the full configuration and a relay that accepts.
InitLimiter ==
    /\ env = EnvAllSet
    /\ ReqInit
    /\ SanIdle

NextLimiter ==
    \/ \E r \in Reqs, c \in Clients : ContactArrive(r, c, 1)
    \/ \E r \in Reqs : Handle(r, {"accept"})
    \/ \E r \in Reqs : SendResolved(r)
    \/ \E r \in Reqs : Release(r)
    \/ \E c \in Clients : WindowExpire(c)

SpecLimiter == InitLimiter /\ [][NextLimiter]_vars

\* The whole surface over long runs: one address, request slots reused, a
\* well-formed and a malformed submission, with and without the recipient and
\* the relay configured, and a relay that accepts, rejects or never answers.
InitLong ==
    /\ env \in {EnvAllSet, EnvOf(FALSE, TRUE, TRUE, TRUE), EnvOf(TRUE, FALSE, TRUE, TRUE)}
    /\ ReqInit
    /\ SanIdle

NextLong ==
    \/ \E r \in Reqs, b \in {1, 2} : ContactArrive(r, "c1", b)
    \/ \E r \in Reqs : Health(r, "c1")
    \/ \E r \in Reqs : Handle(r, RelayOutcomes)
    \/ \E r \in Reqs : SendResolved(r)
    \/ \E r \in Reqs : SendRejected(r)
    \/ \E r \in Reqs : Release(r)
    \/ WindowExpire("c1")

SpecLong == InitLong /\ [][NextLong]_vars

\* MaxReqs requests of two addresses in flight together, under the event
\* loop's scheduling: a handler that can run does run, and a send the relay
\* has answered is resumed.  A send the relay never answers stays suspended.
InitFair ==
    /\ env \in {EnvAllSet, EnvOf(TRUE, FALSE, TRUE, TRUE)}
    /\ ReqInit
    /\ SanIdle

NextFair ==
    \/ \E r \in Reqs, c \in Clients, b \in {1, 2} : ContactArrive(r, c, b)
    \/ \E r \in Reqs, c \in Clients : Health(r, c)
    \/ \E r \in Reqs : Handle(r, RelayOutcomes)
    \/ \E r \in Reqs : SendResolved(r)
    \/ \E r \in Reqs : SendRejected(r)

FairSpec ==
    /\ InitFair
    /\ [][NextFair]_vars
    /\ \A r \in Reqs : WF_vars(Handle(r, RelayOutcomes))
    /\ \A r \in Reqs : WF_vars(SendResolved(r))
    /\ \A r \in Reqs : WF_vars(SendRejected(r))

----------------------------------------------------------------------------
(* sanitize on its own *)

SanChars == {"a", " ", "\t", "\r", "\n"}

SanCounts == {1, SliceMax - 1, SliceMax + 1}

SanRuns == {Run(c, n) : c \in SanChars, n \in SanCounts}

\* the strings of at most MaxRuns runs over SanChars
SanStrings ==
    {s \in UNION {[1..k -> SanRuns] : k \in 0..MaxRuns} :
        \A i \in 1..(Len(s) - 1) : s[i].c # s[i + 1].c}

SanInputs == {Undefined} \cup {Str(s) : s \in SanStrings}

InitSan ==
    /\ env = EnvAllSet
    /\ ReqInit
    /\ sIn \in SanInputs
    /\ sOnce = <<>>
    /\ sTwice = <<>>
    /\ sStage = "raw"

SanitizeOnce ==
    /\ sStage = "raw"
    /\ sOnce' = sanitize(sIn)
    /\ sStage' = "once"
    /\ UNCHANGED <<sIn, sTwice, reqVars>>

SanitizeAgain ==
    /\ sStage = "once"
    /\ sTwice' = sanitize(Str(sOnce))
    /\ sStage' = "twice"
    /\ UNCHANGED <<sIn, sOnce, reqVars>>

NextSan == SanitizeOnce \/ SanitizeAgain

SpecSanitize == InitSan /\ [][NextSan]_vars

----------------------------------------------------------------------------
(* Properties *)

\* the sanitized fields of request r
San(r) == Fields[body[r]]

\* r is a contact request the limiter let through
Admitted(r) == kind[r] = "contact" /\ pc[r] # "idle" /\ resp[r] # LimitResponse

NameOk(f) == StrLen(f.name) >= 2

\* the local@domain.tld pattern, on the sanitized email as it stands
EmailOk(f) == MatchesEmail(f.email)

MessageOk(f) == StrLen(f.message) >= 10

\* the handler's own email rule
EmailPasses(f) == f.email # <<>> /\ isEmail(f.email)

Passes(f) == NameOk(f) /\ EmailPasses(f) /\ MessageOk(f)

\* C1: an admitted request whose sanitized name has length >= 2, whose
\* sanitized email matches the pattern and whose sanitized message has length
\* >= 10, with recipient and relay configured and a relay that accepts, has
\* sendMail called exactly once with replyTo the sanitized email, and is
\* answered 200 {ok:true}.
C1_ValidSubmissionSucceeds ==
    \A r \in Reqs :
        (/\ Admitted(r)
         /\ pc[r] \in {"sending", "done"}
         /\ env.to /\ env.host /\ env.user /\ env.pass
         /\ relay[r] \notin {"reject", "hang"}
         /\ NameOk(San(r)) /\ EmailOk(San(r)) /\ MessageOk(San(r)))
        => /\ sends[r] = 1
           /\ ctor[r] = 1
           /\ mail[r].sent
           /\ mail[r].replyTo = San(r).email
           /\ pc[r] = "done" => (resp[r] = OkResponse /\ nresp[r] = 1)

\* the example of the specification: Jo, jo@example.com, answered 200
C1_Witness ==
    \E r \in Reqs :
        /\ pc[r] = "done" /\ body[r] = 1 /\ resp[r] = OkResponse
        /\ sends[r] = 1 /\ mail[r].replyTo = EmailJo /\ relay[r] = "accept"

\* C2: validation checks name, then email, then message; the first rule that
\* fails decides the response, a 400 with that rule's message; and for a
\* request that fails a rule the transport is never constructed and sendMail
\* never called, under every configuration.
C2_FirstFailureWins ==
    \A r \in Reqs :
        (Admitted(r) /\ ~Passes(San(r)))
        => /\ ctor[r] = 0 /\ sends[r] = 0 /\ mail[r] = NoMail
           /\ pc[r] # "sending"
           /\ pc[r] = "done" =>
                /\ nresp[r] = 1
                /\ resp[r] = IF ~NameOk(San(r)) THEN NameError
                             ELSE IF ~EmailPasses(San(r)) THEN EmailError
                             ELSE MessageError

\* a bad email with a short message is answered with the email's message, and
\* a one-character name with the name's, also where nothing is configured
C2_Witness ==
    /\ ~env.to /\ ~env.host
    /\ \E r, q \in Reqs :
        /\ pc[r] = "done" /\ body[r] = 4 /\ resp[r] = EmailError
        /\ pc[q] = "done" /\ body[q] = 2 /\ resp[q] = NameError

\* C6: for a valid submission with the recipient configured, a failure of the
\* mail path (createTransporter throwing, or the send rejected) is answered
\* once, with 500 and the generic body; sendMail is called at most once; the
\* process keeps running.
C6_MailFailureIsGeneric500 ==
    /\ up
    /\ \A r \in Reqs :
        /\ sends[r] <= 1
        /\ (Admitted(r) /\ Passes(San(r)) /\ env.to)
           => /\ (~(env.host /\ env.user /\ env.pass) /\ pc[r] = "done")
                 => (resp[r] = CatchResponse /\ nresp[r] = 1 /\ sends[r] = 0)
              /\ (relay[r] = "reject")
                 => /\ sends[r] = 1
                    /\ pc[r] \in {"sending", "done"}
                    /\ pc[r] = "done" =>
                         (resp[r] = CatchResponse /\ nresp[r] = 1)

\* one request answered 500 after the relay rejected it, another admitted
\* to the handler
C6_Witness ==
    \E r, q \in Reqs :
        /\ pc[r] = "done" /\ relay[r] = "reject" /\ resp[r] = CatchResponse
        /\ sends[r] = 1 /\ nresp[r] = 1
        /\ pc[q] = "handler"

\* a request answered 500 because createTransporter threw
C6_WitnessThrow ==
    \E r \in Reqs :
        /\ env.to /\ ~env.pass
        /\ pc[r] = "done" /\ ctor[r] = 1 /\ sends[r] = 0 /\ resp[r] = CatchResponse

\* C7: with the recipient unset, a submission that passes the three rules is
\* answered 500 with the configuration message, and createTransporter and
\* sendMail are not called; one that fails a rule is answered its 400.
C7_MissingRecipient ==
    \A r \in Reqs :
        (Admitted(r) /\ ~env.to)
        => /\ ctor[r] = 0 /\ sends[r] = 0 /\ pc[r] # "sending"
           /\ pc[r] = "done" =>
                /\ nresp[r] = 1
                /\ Passes(San(r)) => resp[r] = ConfigError
                /\ ~Passes(San(r)) => resp[r].status = 400

C7_Witness ==
    /\ ~env.to
    /\ \E r, q \in Reqs :
        /\ pc[r] = "done" /\ body[r] = 1 /\ resp[r] = ConfigError /\ ctor[r] = 0
        /\ pc[q] = "done" /\ body[q] = 5 /\ resp[q] = MessageError

\* C9: whenever sendMail has been called, the submission handed to it has a
\* name of length >= 2, an email matching the pattern (one "@", a "." after
\* it, no whitespace), a message of length >= 10, and in each field at most
\* 4000 characters and no CR or LF.
C9_SentSubmissionWellFormed ==
    \A r \in Reqs :
        sends[r] >= 1
        => /\ StrLen(mail[r].name) >= 2
           /\ MatchesEmail(mail[r].email)
           /\ StrLen(mail[r].message) >= 10
           /\ \A f \in {mail[r].name, mail[r].email, mail[r].message} :
                /\ StrLen(f) <= 4000
                /\ "\r" \notin CharsOf(f)
                /\ "\n" \notin CharsOf(f)

\* C3: of the requests of one address to /api/contact in one window, the
\* first 20 reach the handler and every later one is answered by the limiter
\* without reaching it; a window that rolls over starts the count again; a
\* request of one address changes no other address's count.
C3_TwentyPerWindow ==
    [][/\ \A r \in Reqs, c \in Clients :
            (pc[r] = "idle" /\ kind'[r] = "contact" /\ ip'[r] = c)
            => /\ hits[c] < 20 => (pc'[r] = "handler" /\ resp'[r] = NoResp)
               /\ hits[c] >= 20 =>
                    (pc'[r] = "done" /\ resp'[r] = LimitResponse /\ nresp'[r] = 1)
               /\ hits'[c] = Min(hits[c] + 1, HitCap)
               /\ \A d \in Clients \ {c} : hits'[d] = hits[d]
       /\ \A r \in Reqs : (pc'[r] = "handler" /\ pc[r] # "handler") => pc[r] = "idle"
       /\ \A r \in Reqs : resp[r] = LimitResponse => (ctor'[r] = 0 /\ sends'[r] = 0)
       /\ \A c \in Clients : hits'[c] < hits[c] => hits'[c] = 0
      ]_vars

\* one address over its quota and answered 429 while a request of the other
\* address, its first in the window, is with the handler
C3_Witness ==
    \E r, q \in Reqs :
        /\ ip[r] = "c1" /\ hits["c1"] = HitCap /\ resp[r] = LimitResponse
        /\ ip[q] = "c2" /\ hits["c2"] = 1 /\ pc[q] = "handler"

\* an address admitted again after its window rolled over
C3_WitnessRollover ==
    \E r, q \in Reqs :
        /\ ip[r] = "c1" /\ resp[r] = LimitResponse /\ pc[r] = "done"
        /\ ip[q] = "c1" /\ pc[q] = "handler" /\ hits["c1"] = 1

\* C8: GET /health is answered 200 {ok:true} whenever it arrives, also for an
\* address over its quota, without the recipient or the relay configured, and
\* with sends in flight or failed; and it calls neither createTransporter nor
\* sendMail and changes no counter of the limiter.
C8_HealthAlwaysOk ==
    /\ [][\A r \in Reqs :
        (pc[r] = "idle" /\ kind'[r] = "health")
        => /\ pc'[r] = "done"
           /\ resp'[r] = OkResponse
           /\ nresp'[r] = 1
           /\ hits' = hits
           /\ ctor' = ctor /\ sends' = sends /\ mail' = mail /\ relay' = relay
      ]_vars
    /\ [](\A r \in Reqs : pc[r] = "idle" => ENABLED Health(r, "c1"))

\* a health check answered 200 for the address that is over its quota, beside
\* a send that hangs
C8_Witness ==
    \E r, q \in Reqs :
        /\ kind[r] = "health" /\ pc[r] = "done" /\ resp[r] = OkResponse
        /\ hits[ip[r]] = HitCap
        /\ pc[q] = "sending" /\ relay[q] = "hang"

\* a health check answered 200 without the relay configured, beside a failed
\* submission
C8_WitnessUnconfigured ==
    \E r, q \in Reqs :
        /\ ~env.host
        /\ kind[r] = "health" /\ pc[r] = "done" /\ resp[r] = OkResponse
        /\ resp[q] = CatchResponse

\* the first rule body b fails: name, then email, then message; "" if none
FirstFailure ==
    [b \in Bodies |->
        LET f == [name |-> sanitize(BodyTable[b].name),
                  email |-> sanitize(BodyTable[b].email),
                  message |-> sanitize(BodyTable[b].message)]
        IN IF ~NameOk(f) THEN "name"
           ELSE IF ~EmailPasses(f) THEN "email"
           ELSE IF ~MessageOk(f) THEN "message"
           ELSE ""]

\* what the handler answers to body b under the configuration, given what
\* the relay does with the message
Outcome(b, o) ==
    IF FirstFailure[b] = "name" THEN NameError
    ELSE IF FirstFailure[b] = "email" THEN EmailError
    ELSE IF FirstFailure[b] = "message" THEN MessageError
    ELSE IF ~env.to THEN ConfigError
    ELSE IF ~(env.host /\ env.user /\ env.pass) THEN CatchResponse
    ELSE IF o = "accept" THEN OkResponse
    ELSE CatchResponse

OutcomeIsOwn ==
    \A r \in Reqs :
        pc[r] = "done"
        => /\ nresp[r] = 1
           /\ kind[r] = "health" => resp[r] = OkResponse
           /\ kind[r] = "contact" =>
                resp[r] \in {LimitResponse, Outcome(body[r], relay[r])}

\* the send of r is one the relay never answers
Hung(r) == pc[r] = "sending" /\ relay[r] = "hang"

\* C10: a send that never completes delays only its own response: in the end
\* every request that has arrived has its single response, whatever the
\* others are suspended at, except those whose own send is the one that
\* hangs; and the response of a request is decided by its own body, the
\* configuration, the limiter's verdict and what the relay did with its own
\* message.
C10_HungSendBlocksOnlyItself ==
    /\ []OutcomeIsOwn
    /\ <>[](\A r \in Reqs : pc[r] \in {"idle", "done"} \/ Hung(r))

\* one request suspended at a send the relay never answers, another answered
C10_Witness ==
    \E r, q \in Reqs :
        /\ pc[r] = "sending" /\ relay[r] = "hang"
        /\ pc[q] = "done" /\ kind[q] = "contact" /\ resp[q] = OkResponse

\* C4: sanitize(sanitize(v)) = sanitize(v) for every value v.
C4_SanitizeIdempotent ==
    sStage = "twice" => sTwice = sOnce

\* C5 as stated: a value longer than 4000 characters is cut to exactly 4000,
\* and no result is longer than 4000.
C5_LongerThanMaxCutToMax ==
    sStage \in {"once", "twice"}
    => /\ StrLen(sOnce) <= 4000
       /\ StrLen(ToStr(sIn)) > 4000 => StrLen(sOnce) = 4000

\* C5, amended: a value that is still longer than 4000 characters once its
\* line breaks are collapsed and its ends trimmed comes back with exactly
\* 4000 characters; no result is longer than 4000.
C5_CollapsedTrimmedCutToMax ==
    sStage \in {"once", "twice"}
    => LET u == Trim(ReplaceBreaks(ToStr(sIn)))
       IN /\ StrLen(sOnce) <= 4000
          /\ StrLen(u) > 4000 => StrLen(sOnce) = 4000

\* a value longer than 4000 with whitespace at its start, cut to 4000
C5_Witness ==
    /\ sStage = "once"
    /\ StrLen(ToStr(sIn)) > 4000
    /\ ToStr(sIn)[1].c = " "
    /\ StrLen(sOnce) = 4000

====
